---------------------------- MODULE Spec2Model ----------------------------
(***************************************************************************)
(* A model of libsolidity/ast/ASTBoogieUtils.cpp: the arithmetic encoder   *)
(* (encodeArithBinaryOp / encodeArithUnaryOp), the range conditions        *)
(* (getTCCforExpr), the bit-vector conversions, the synthesized            *)
(* __transfer / __call / __send procedures and selectToUpdate.             *)
(*                                                                         *)
(* The encoders build Boogie expression trees.  The trees are modelled as  *)
(* records and given their Boogie meaning by Eval, so that a statement     *)
(* about "the wrapped result" is a statement about the value of the tree   *)
(* the code builds.                                                        *)
(***************************************************************************)
EXTENDS Integers, Sequences, FiniteSets, TLC

VARIABLES
    encoding,   \* context.encoding(): "INT", "BV" or "MOD"
    overflow,   \* context.overflow()
    errors,     \* the diagnostics sink filled by context.reportError
    calls,      \* number of calls made into the unit so far
    call,       \* the last call: the function and its arguments
    ret,        \* what the last call returned
    env,        \* valuation of the identifiers the built expressions mention
    old,        \* valuation at the entry of an executed procedure
    pc          \* "idle", "entry", "done", or "abort" after a failed solAssert

vars == <<encoding, overflow, errors, calls, call, ret, env, old, pc>>

---------------------------------------------------------------------------
(* Bounds of the model *)

\* widest operand type of the arithmetic encoder that is enumerated
MaxBits == 3
\* number of calls in one run of the diagnostics and conversion specifications
MaxCalls == 2

\* the width that stands for the 256 bits of uint256 and of the enums
Bits256 == 2
\* largest number of members of an enumerated enum type
MaxMembers == 3
\* deepest select chain handed to selectToUpdate
MaxDepth == 3
\* largest index of the maps that are selected from
MaxIndex == 1
\* number of different contents of those maps, less one
MaxSeed == 3
\* largest literal exponent handed to the encoder
MaxExponent == 3

Encodings == {"INT", "BV", "MOD"}

---------------------------------------------------------------------------
(* Boogie expressions (boogie::Expr), as records *)

Null == [kind |-> "null"]
Lit(v) == [kind |-> "intlit", val |-> v]
BvLit(v, bits) == [kind |-> "bvlit", val |-> v, bits |-> bits]
BoolLit(b) == [kind |-> "boollit", bval |-> b]
Id(n) == [kind |-> "id", name |-> n]
Bin(k, l, r) == [kind |-> k, l |-> l, r |-> r]
Plus(l, r) == Bin("plus", l, r)
Minus(l, r) == Bin("minus", l, r)
Times(l, r) == Bin("times", l, r)
IntDiv(l, r) == Bin("intdiv", l, r)
Mod(l, r) == Bin("mod", l, r)
Lt(l, r) == Bin("lt", l, r)
Gt(l, r) == Bin("gt", l, r)
Lte(l, r) == Bin("lte", l, r)
Gte(l, r) == Bin("gte", l, r)
Eq(l, r) == Bin("eq", l, r)
And(l, r) == Bin("and", l, r)
Neg(e) == [kind |-> "neg", sub |-> e]
Cond(c, t, e) == [kind |-> "cond", c |-> c, t |-> t, els |-> e]
ArrSel(b, i) == [kind |-> "arrsel", base |-> b, idx |-> i]
ArrUpd(b, i, v) == [kind |-> "arrupd", base |-> b, idx |-> i, v |-> v]
\* context.bvAdd(bits, a, b) and the other width-parameterized primitives
BvBin(fn, bits, l, r) == [kind |-> "bvbin", fn |-> fn, bits |-> bits, l |-> l, r |-> r]
BvUn(fn, bits, e) == [kind |-> "bvun", fn |-> fn, bits |-> bits, sub |-> e]
BvZeroExt(e, from, to) == [kind |-> "bvzeroext", sub |-> e, from |-> from, to |-> to]
BvSignExt(e, from, to) == [kind |-> "bvsignext", sub |-> e, from |-> from, to |-> to]
BvExtract(e, from, hi, lo) == [kind |-> "bvextract", sub |-> e, from |-> from, hi |-> hi, lo |-> lo]

ERR_EXPR == "__ERROR"

IsIntLit(e) == e.kind = "intlit"
IsBvLit(e) == e.kind = "bvlit"

RECURSIVE Pow(_, _)
Pow(b, n) == IF n = 0 THEN 1 ELSE b * Pow(b, n - 1)

Abs(a) == IF a < 0 THEN -a ELSE a
\* division rounding toward zero
TruncDiv(a, b) ==
    IF (a < 0) = (b < 0) THEN Abs(a) \div Abs(b) ELSE -(Abs(a) \div Abs(b))
\* the remainder of the division rounding toward zero (C++ %, cpp_int %)
TruncRem(a, b) == a - b * TruncDiv(a, b)

\* the signed reading of a bit pattern
ToSigned(v, bits) == IF v >= 2^(bits - 1) THEN v - 2^bits ELSE v
\* the bit pattern of an integer
ToBits(v, bits) == v % (2^bits)

EvalBvBin(fn, bits, a, b) ==
    CASE fn = "add" -> ToBits(a + b, bits)
      [] fn = "sub" -> ToBits(a - b, bits)
      [] fn = "mul" -> ToBits(a * b, bits)
      [] fn = "udiv" -> a \div b
      [] fn = "sdiv" -> ToBits(TruncDiv(ToSigned(a, bits), ToSigned(b, bits)), bits)
      [] fn = "ult" -> a < b
      [] fn = "ugt" -> a > b
      [] fn = "ule" -> a <= b
      [] fn = "uge" -> a >= b
      [] fn = "slt" -> ToSigned(a, bits) < ToSigned(b, bits)
      [] fn = "sgt" -> ToSigned(a, bits) > ToSigned(b, bits)
      [] fn = "sle" -> ToSigned(a, bits) <= ToSigned(b, bits)
      [] fn = "sge" -> ToSigned(a, bits) >= ToSigned(b, bits)

\* The value of an expression under a valuation of its identifiers.
RECURSIVE Eval(_, _)
Eval(e, rho) ==
    CASE e.kind = "intlit" -> e.val
      [] e.kind = "bvlit" -> e.val
      [] e.kind = "boollit" -> e.bval
      [] e.kind = "id" -> rho[e.name]
      [] e.kind = "plus" -> Eval(e.l, rho) + Eval(e.r, rho)
      [] e.kind = "minus" -> Eval(e.l, rho) - Eval(e.r, rho)
      [] e.kind = "times" -> Eval(e.l, rho) * Eval(e.r, rho)
      [] e.kind = "intdiv" -> TruncDiv(Eval(e.l, rho), Eval(e.r, rho))
      [] e.kind = "mod" -> Eval(e.l, rho) % Eval(e.r, rho)
      [] e.kind = "lt" -> Eval(e.l, rho) < Eval(e.r, rho)
      [] e.kind = "gt" -> Eval(e.l, rho) > Eval(e.r, rho)
      [] e.kind = "lte" -> Eval(e.l, rho) <= Eval(e.r, rho)
      [] e.kind = "gte" -> Eval(e.l, rho) >= Eval(e.r, rho)
      [] e.kind = "eq" -> Eval(e.l, rho) = Eval(e.r, rho)
      [] e.kind = "and" -> Eval(e.l, rho) /\ Eval(e.r, rho)
      [] e.kind = "neg" -> -Eval(e.sub, rho)
      [] e.kind = "cond" ->
            IF Eval(e.c, rho) THEN Eval(e.t, rho) ELSE Eval(e.els, rho)
      [] e.kind = "arrsel" -> Eval(e.base, rho)[Eval(e.idx, rho)]
      [] e.kind = "arrupd" ->
            [Eval(e.base, rho) EXCEPT ![Eval(e.idx, rho)] = Eval(e.v, rho)]
      [] e.kind = "bvbin" ->
            EvalBvBin(e.fn, e.bits, Eval(e.l, rho), Eval(e.r, rho))
      [] e.kind = "bvun" ->
            IF e.fn = "neg" THEN ToBits(-Eval(e.sub, rho), e.bits)
            ELSE 2^e.bits - 1 - Eval(e.sub, rho)
      [] e.kind = "bvzeroext" -> Eval(e.sub, rho)
      [] e.kind = "bvsignext" ->
            ToBits(ToSigned(Eval(e.sub, rho), e.from), e.to)
      [] e.kind = "bvextract" ->
            (Eval(e.sub, rho) \div 2^e.lo) % 2^(e.hi - e.lo + 1)

---------------------------------------------------------------------------
(* langutil::Token, the operators handed to the encoders *)

AddOps == {"Add", "AssignAdd"}
SubOps == {"Sub", "AssignSub"}
MulOps == {"Mul", "AssignMul"}
DivOps == {"Div", "AssignDiv"}
ModOps == {"Mod", "AssignMod"}
BitAndOps == {"BitAnd", "AssignBitAnd"}
BitOrOps == {"BitOr", "AssignBitOr"}
BitXorOps == {"BitXor", "AssignBitXor"}
SarOps == {"SAR", "AssignSar"}
ShlOps == {"SHL", "AssignShl"}
CompareOps == {"LessThan", "GreaterThan", "LessThanOrEqual", "GreaterThanOrEqual"}
\* tokens no encoding has a case for
OtherBinaryOps == {"SHR", "AssignShr", "Equal", "NotEqual"}

\* context.reportError(associatedNode, text + token)
Error(text, token) == [text |-> text, token |-> token]

\* ExprWithCC, together with the errors the call reported
ExprWithCC(result, ecc) == [expr |-> result, cc |-> ecc, errs |-> <<>>]
Unsupported(text, token) ==
    [expr |-> Id(ERR_EXPR), cc |-> Null, errs |-> <<Error(text, token)>>]

\* context.intLit(value, bits): a literal of the active encoding's integer type
ContextIntLit(enc, v, bits) == IF enc = "BV" THEN BvLit(v, bits) ELSE Lit(v)

---------------------------------------------------------------------------
(* encodeArithBinaryOp, case BoogieContext::Encoding::INT *)

IntExp(lhs, rhs) ==
    IF IsIntLit(lhs) /\ IsIntLit(rhs)
    THEN ExprWithCC(Lit(Pow(lhs.val, rhs.val)), Null)
    ELSE Unsupported("Exponentiation is not supported in 'int' encoding", "")

IntBinaryOp(op, lhs, rhs) ==
    CASE op \in AddOps -> ExprWithCC(Plus(lhs, rhs), Null)
      [] op \in SubOps -> ExprWithCC(Minus(lhs, rhs), Null)
      [] op \in MulOps -> ExprWithCC(Times(lhs, rhs), Null)
      [] op \in DivOps -> ExprWithCC(IntDiv(lhs, rhs), Null)
      [] op \in ModOps -> ExprWithCC(Mod(lhs, rhs), Null)
      [] op = "LessThan" -> ExprWithCC(Lt(lhs, rhs), Null)
      [] op = "GreaterThan" -> ExprWithCC(Gt(lhs, rhs), Null)
      [] op = "LessThanOrEqual" -> ExprWithCC(Lte(lhs, rhs), Null)
      [] op = "GreaterThanOrEqual" -> ExprWithCC(Gte(lhs, rhs), Null)
      [] op = "Exp" -> IntExp(lhs, rhs)
      [] OTHER -> Unsupported("Unsupported binary operator in 'int' encoding ", op)

---------------------------------------------------------------------------
(* encodeArithBinaryOp, case BoogieContext::Encoding::BV *)

BvExp(lhs, rhs, bits) ==
    IF IsBvLit(lhs) /\ IsBvLit(rhs)
    THEN ExprWithCC(
            ContextIntLit("BV", TruncRem(Pow(lhs.val, rhs.val), Pow(2, bits)), bits),
            Null)
    ELSE Unsupported("Exponentiation is not supported in 'bv' encoding", "")

BvCompare(op, lhs, rhs, bits, isSigned) ==
    CASE op = "LessThan" ->
            BvBin(IF isSigned THEN "slt" ELSE "ult", bits, lhs, rhs)
      [] op = "GreaterThan" ->
            BvBin(IF isSigned THEN "sgt" ELSE "ugt", bits, lhs, rhs)
      [] op = "LessThanOrEqual" ->
            BvBin(IF isSigned THEN "sle" ELSE "ule", bits, lhs, rhs)
      [] op = "GreaterThanOrEqual" ->
            BvBin(IF isSigned THEN "sge" ELSE "uge", bits, lhs, rhs)

BvBinaryOp(op, lhs, rhs, bits, isSigned) ==
    CASE op \in AddOps -> ExprWithCC(BvBin("add", bits, lhs, rhs), Null)
      [] op \in SubOps -> ExprWithCC(BvBin("sub", bits, lhs, rhs), Null)
      [] op \in MulOps -> ExprWithCC(BvBin("mul", bits, lhs, rhs), Null)
      [] op \in DivOps ->
            ExprWithCC(BvBin(IF isSigned THEN "sdiv" ELSE "udiv", bits, lhs, rhs), Null)
      [] op \in BitAndOps -> ExprWithCC(BvBin("and", bits, lhs, rhs), Null)
      [] op \in BitOrOps -> ExprWithCC(BvBin("or", bits, lhs, rhs), Null)
      [] op \in BitXorOps -> ExprWithCC(BvBin("xor", bits, lhs, rhs), Null)
      [] op \in SarOps ->
            ExprWithCC(BvBin(IF isSigned THEN "ashr" ELSE "lshr", bits, lhs, rhs), Null)
      [] op \in ShlOps -> ExprWithCC(BvBin("shl", bits, lhs, rhs), Null)
      [] op \in CompareOps ->
            ExprWithCC(BvCompare(op, lhs, rhs, bits, isSigned), Null)
      [] op = "Exp" -> BvExp(lhs, rhs, bits)
      [] OTHER -> Unsupported("Unsupported binary operator in 'bv' encoding ", op)

---------------------------------------------------------------------------
(* encodeArithBinaryOp, case BoogieContext::Encoding::MOD *)

modulo(bits) == Lit(Pow(2, bits))
largestSigned(bits) == Lit(Pow(2, bits - 1) - 1)
smallestSigned(bits) == Lit(-Pow(2, bits - 1))

\* the signed fold shared by Add, Sub and Div
SignedWrap(x, bits) ==
    Cond(Gt(x, largestSigned(bits)),
         Minus(x, modulo(bits)),
         Cond(Lt(x, smallestSigned(bits)), Plus(x, modulo(bits)), x))

\* ModAdd with the unsigned test written sum > modulo
ModAdd_offByOne(lhs, rhs, bits, isSigned) ==
    LET sum == Plus(lhs, rhs)
        result == IF isSigned
                  THEN SignedWrap(sum, bits)
                  ELSE Cond(Gt(sum, modulo(bits)), Minus(sum, modulo(bits)), sum)
    IN ExprWithCC(result, Eq(sum, result))

ModAdd(lhs, rhs, bits, isSigned) ==
    LET sum == Plus(lhs, rhs)
        result == IF isSigned
                  THEN SignedWrap(sum, bits)
                  ELSE Cond(Gte(sum, modulo(bits)), Minus(sum, modulo(bits)), sum)
    IN ExprWithCC(result, Eq(sum, result))

\* ModSub that leaves an unsigned difference below zero as it is
ModSub_unwrapped(lhs, rhs, bits, isSigned) ==
    LET diff == Minus(lhs, rhs)
        result == IF isSigned THEN SignedWrap(diff, bits) ELSE diff
    IN ExprWithCC(result, Eq(diff, result))

ModSub(lhs, rhs, bits, isSigned) ==
    LET diff == Minus(lhs, rhs)
        result == IF isSigned
                  THEN SignedWrap(diff, bits)
                  ELSE Cond(Gte(lhs, rhs), diff, Plus(diff, modulo(bits)))
    IN ExprWithCC(result, Eq(diff, result))

\* ModMul without moving the operands into the unsigned domain first
ModMul_unshifted(lhs, rhs, bits, isSigned) ==
    LET prod == Times(lhs, rhs)
        result == IF isSigned
                  THEN SignedWrap(prod, bits)
                  ELSE Cond(Gte(prod, modulo(bits)), Mod(prod, modulo(bits)), prod)
    IN ExprWithCC(result, Eq(prod, result))

ModMul(lhs, rhs, bits, isSigned) ==
    LET prod == Times(lhs, rhs)
        lhs1 == Cond(Gte(lhs, Lit(0)), lhs, Plus(modulo(bits), lhs))
        rhs1 == Cond(Gte(rhs, Lit(0)), rhs, Plus(modulo(bits), rhs))
        prod1 == Mod(Times(lhs1, rhs1), modulo(bits))
        result == IF isSigned
                  THEN Cond(Gt(prod1, largestSigned(bits)),
                            Minus(prod1, modulo(bits)), prod1)
                  ELSE Cond(Gte(prod, modulo(bits)), Mod(prod, modulo(bits)), prod)
    IN ExprWithCC(result, Eq(prod, result))

ModDiv(lhs, rhs, bits, isSigned) ==
    LET div == IntDiv(lhs, rhs)
        result == IF isSigned THEN SignedWrap(div, bits) ELSE div
    IN ExprWithCC(result, Eq(div, result))

ModExp(lhs, rhs, bits, isSigned) ==
    IF IsIntLit(lhs) /\ IsIntLit(rhs)
    THEN LET power == Pow(lhs.val, rhs.val)
             result == ContextIntLit("MOD",
                          TruncRem(power, Pow(2, IF isSigned THEN bits - 1 ELSE bits)),
                          bits)
         IN ExprWithCC(result, Eq(ContextIntLit("MOD", power, bits), result))
    ELSE Unsupported("Exponentiation is not supported in 'mod' encoding", "")

ModBinaryOp(op, lhs, rhs, bits, isSigned) ==
    CASE op \in AddOps -> ModAdd(lhs, rhs, bits, isSigned)
      [] op \in SubOps -> ModSub(lhs, rhs, bits, isSigned)
      [] op \in MulOps -> ModMul(lhs, rhs, bits, isSigned)
      [] op \in DivOps -> ModDiv(lhs, rhs, bits, isSigned)
      [] op = "LessThan" -> ExprWithCC(Lt(lhs, rhs), Null)
      [] op = "GreaterThan" -> ExprWithCC(Gt(lhs, rhs), Null)
      [] op = "LessThanOrEqual" -> ExprWithCC(Lte(lhs, rhs), Null)
      [] op = "GreaterThanOrEqual" -> ExprWithCC(Gte(lhs, rhs), Null)
      [] op = "Exp" -> ModExp(lhs, rhs, bits, isSigned)
      [] OTHER -> Unsupported("Unsupported binary operator in 'mod' encoding ", op)

encodeArithBinaryOp(enc, op, lhs, rhs, bits, isSigned) ==
    CASE enc = "INT" -> IntBinaryOp(op, lhs, rhs)
      [] enc = "BV" -> BvBinaryOp(op, lhs, rhs, bits, isSigned)
      [] enc = "MOD" -> ModBinaryOp(op, lhs, rhs, bits, isSigned)

---------------------------------------------------------------------------
(* encodeArithUnaryOp *)

\* IntUnaryOp returning a condition with the negation
IntUnaryOp_withCC(op, subExpr) ==
    IF op = "Sub" THEN ExprWithCC(Neg(subExpr), Eq(Neg(subExpr), Neg(subExpr)))
    ELSE Unsupported("Unsupported unary operator in 'int' encoding ", op)

IntUnaryOp(op, subExpr) ==
    IF op = "Sub" THEN ExprWithCC(Neg(subExpr), Null)
    ELSE Unsupported("Unsupported unary operator in 'int' encoding ", op)

BvUnaryOp(op, subExpr, bits) ==
    CASE op = "Sub" -> ExprWithCC(BvUn("neg", bits, subExpr), Null)
      [] op = "BitNot" -> ExprWithCC(BvUn("not", bits, subExpr), Null)
      [] OTHER -> Unsupported("Unsupported unary operator in 'bv' encoding ", op)

ModNeg(subExpr, bits, isSigned) ==
    LET sub == Neg(subExpr)
        result == IF isSigned
                  THEN Cond(Eq(subExpr, smallestSigned(bits)), smallestSigned(bits), sub)
                  ELSE Cond(Eq(subExpr, Lit(0)), Lit(0), Minus(modulo(bits), subExpr))
    IN ExprWithCC(result, Eq(sub, result))

\* ModUnaryOp whose default branch returns the sentinel without reporting
ModUnaryOp_silent(op, subExpr, bits, isSigned) ==
    IF op = "Sub" THEN ModNeg(subExpr, bits, isSigned)
    ELSE ExprWithCC(Id(ERR_EXPR), Null)

ModUnaryOp(op, subExpr, bits, isSigned) ==
    IF op = "Sub" THEN ModNeg(subExpr, bits, isSigned)
    ELSE Unsupported("Unsupported unary operator in 'mod' encoding ", op)

encodeArithUnaryOp(enc, op, subExpr, bits, isSigned) ==
    CASE enc = "INT" -> IntUnaryOp(op, subExpr)
      [] enc = "BV" -> BvUnaryOp(op, subExpr, bits)
      [] enc = "MOD" -> ModUnaryOp(op, subExpr, bits, isSigned)

---------------------------------------------------------------------------
(* Types (solidity Type), as records *)

NoType == [category |-> "null"]
IntegerType(bits, isSigned) ==
    [category |-> "Integer", bits |-> bits, isSigned |-> isSigned]
FixedBytesType(bytes) == [category |-> "FixedBytes", bytes |-> bytes]
EnumType(members) == [category |-> "Enum", members |-> members]
TupleType(components) == [category |-> "Tuple", components |-> components]
OtherType(category) == [category |-> category]

RECURSIVE isBitPreciseType(_)
isBitPreciseType(type) ==
    CASE type.category \in {"Integer", "FixedBytes", "Enum"} -> TRUE
      [] type.category = "Tuple" ->
            \A i \in DOMAIN type.components :
                type.components[i] # NoType => isBitPreciseType(type.components[i])
      [] OTHER -> FALSE

\* getBits and isSigned end in solAssert(false, ...) for any other type
HasBits(type) == type.category \in {"Integer", "Enum"}
getBits(type) == IF type.category = "Integer" THEN type.bits ELSE Bits256
\* ASTBoogieUtils::isSigned (the name is taken by the encoders' parameter)
isSignedType(type) == IF type.category = "Integer" THEN type.isSigned ELSE FALSE

\* the outcome of a call that ended in a failed solAssert
Abort == [kind |-> "abort"]

---------------------------------------------------------------------------
(* getTCCforExpr *)

\* getTCCforExpr with the enum bound included in the range
getTCCforExpr_enumInclusive(expr, tp) ==
    IF tp.category = "Enum"
    THEN And(Lte(Lit(0), expr), Lte(expr, Lit(tp.members)))
    ELSE IF isBitPreciseType(tp)
    THEN IF ~HasBits(tp) THEN Abort
         ELSE LET bits == getBits(tp)
              IN IF isSignedType(tp)
                 THEN And(Lte(Lit(-Pow(2, bits - 1)), expr),
                          Lte(expr, Lit(Pow(2, bits - 1) - 1)))
                 ELSE And(Lte(Lit(0), expr), Lte(expr, Lit(Pow(2, bits) - 1)))
    ELSE BoolLit(TRUE)

getTCCforExpr(expr, tp) ==
    IF tp.category = "Enum"
    THEN And(Lte(Lit(0), expr), Lt(expr, Lit(tp.members)))
    ELSE IF isBitPreciseType(tp)
    THEN IF ~HasBits(tp) THEN Abort
         ELSE LET bits == getBits(tp)
              IN IF isSignedType(tp)
                 THEN And(Lte(Lit(-Pow(2, bits - 1)), expr),
                          Lte(expr, Lit(Pow(2, bits - 1) - 1)))
                 ELSE And(Lte(Lit(0), expr), Lte(expr, Lit(Pow(2, bits) - 1)))
    ELSE BoolLit(TRUE)

---------------------------------------------------------------------------
(* checkImplicitBvConversion / checkExplicitBvConversion *)

TupleExpr(elements) == [kind |-> "tuple", elems |-> elements]
IsTupleExpr(e) == e.kind = "tuple"
\* the outcome of dereferencing the null result of a failed dynamic cast
Undefined == [kind |-> "undefined"]

RECURSIVE checkImplicitBvConversion(_, _, _)
checkImplicitBvConversion(expr, exprType, targetType) ==
    IF exprType = NoType \/ targetType = NoType THEN Abort
    ELSE IF targetType.category = "Tuple"
    THEN IF \/ ~IsTupleExpr(expr)
            \/ exprType.category # "Tuple"
            \/ Len(expr.elems) < Len(targetType.components)
            \/ Len(exprType.components) < Len(targetType.components)
         THEN Undefined
         ELSE LET elements ==
                      [i \in DOMAIN targetType.components |->
                          IF targetType.components[i] # NoType
                          THEN checkImplicitBvConversion(expr.elems[i],
                                   exprType.components[i], targetType.components[i])
                          ELSE Null]
              IN IF \E i \in DOMAIN elements : elements[i] = Undefined
                 THEN Undefined
                 ELSE IF \E i \in DOMAIN elements : elements[i] = Abort
                 THEN Abort
                 ELSE TupleExpr(elements)
    ELSE IF isBitPreciseType(targetType)
    THEN IF ~HasBits(targetType) THEN Abort
         ELSE LET targetBits == getBits(targetType)
              IN IF IsIntLit(expr)
                 THEN IF expr.val < 0
                      THEN BvUn("neg", targetBits, BvLit(-expr.val, targetBits))
                      ELSE BvLit(expr.val, targetBits)
                 ELSE IF isBitPreciseType(exprType)
                 THEN IF ~HasBits(exprType) THEN Abort
                      ELSE LET exprBits == getBits(exprType)
                               targetSigned == isSignedType(targetType)
                               exprSigned == isSignedType(exprType)
                           IN IF targetBits = exprBits /\ targetSigned = exprSigned
                              THEN expr
                              ELSE IF ~(targetBits >= exprBits) THEN Abort
                              ELSE IF ~exprSigned
                              THEN BvZeroExt(expr, exprBits, targetBits)
                              ELSE IF targetSigned
                              THEN BvSignExt(expr, exprBits, targetBits)
                              ELSE Abort
                 ELSE expr
    ELSE expr

\* checkExplicitBvConversion extracting the high-order bits when narrowing
checkExplicitBvConversion_highBits(expr, exprType, targetType) ==
    IF targetType = NoType \/ exprType = NoType THEN expr
    ELSE IF isBitPreciseType(targetType)
    THEN IF ~HasBits(targetType) THEN Abort
         ELSE LET targetBits == getBits(targetType)
              IN IF IsIntLit(expr)
                 THEN checkImplicitBvConversion(expr, exprType, targetType)
                 ELSE IF isBitPreciseType(exprType)
                 THEN IF ~HasBits(exprType) THEN Abort
                      ELSE LET exprBits == getBits(exprType)
                               targetSigned == isSignedType(targetType)
                               exprSigned == isSignedType(exprType)
                           IN IF \/ targetBits < exprBits
                                 \/ (exprSigned /\ ~targetSigned)
                                 \/ (targetBits = exprBits /\ ~exprSigned /\ targetSigned)
                              THEN IF targetBits = exprBits THEN expr
                                   ELSE IF targetBits > exprBits
                                   THEN BvSignExt(expr, exprBits, targetBits)
                                   ELSE BvExtract(expr, exprBits, exprBits - 1,
                                                  exprBits - targetBits)
                              ELSE checkImplicitBvConversion(expr, exprType, targetType)
                 ELSE expr
    ELSE expr

checkExplicitBvConversion(expr, exprType, targetType) ==
    IF targetType = NoType \/ exprType = NoType THEN expr
    ELSE IF isBitPreciseType(targetType)
    THEN IF ~HasBits(targetType) THEN Abort
         ELSE LET targetBits == getBits(targetType)
              IN IF IsIntLit(expr)
                 THEN checkImplicitBvConversion(expr, exprType, targetType)
                 ELSE IF isBitPreciseType(exprType)
                 THEN IF ~HasBits(exprType) THEN Abort
                      ELSE LET exprBits == getBits(exprType)
                               targetSigned == isSignedType(targetType)
                               exprSigned == isSignedType(exprType)
                           IN IF \/ targetBits < exprBits
                                 \/ (exprSigned /\ ~targetSigned)
                                 \/ (targetBits = exprBits /\ ~exprSigned /\ targetSigned)
                              THEN IF targetBits = exprBits THEN expr
                                   ELSE IF targetBits > exprBits
                                   THEN BvSignExt(expr, exprBits, targetBits)
                                   ELSE BvExtract(expr, exprBits, targetBits - 1, 0)
                              ELSE checkImplicitBvConversion(expr, exprType, targetType)
                 ELSE expr
    ELSE expr

---------------------------------------------------------------------------
(* selectToUpdate *)

IsSelExpr(e) == e.kind = "arrsel"
\* SelExpr::toUpdate: the update of the selected element of the base
toUpdate(selExpr, value) == ArrUpd(selExpr.base, selExpr.idx, value)

RECURSIVE selectToUpdate(_, _)
\* selectToUpdate writing the old value of a nested element back
selectToUpdate_dropValue(sel, value) ==
    IF IsSelExpr(sel)
    THEN IF IsSelExpr(sel.base)
         THEN selectToUpdate(sel.base, toUpdate(sel, sel))
         ELSE toUpdate(sel, value)
    ELSE Abort

selectToUpdate(sel, value) ==
    IF IsSelExpr(sel)
    THEN IF IsSelExpr(sel.base)
         THEN selectToUpdate(sel.base, toUpdate(sel, value))
         ELSE toUpdate(sel, value)
    ELSE Abort

---------------------------------------------------------------------------
(* Boogie statements and procedures *)

Assume(e) == [kind |-> "assume", cond |-> e]
Assign(lhs, rhs) == [kind |-> "assign", lhs |-> lhs, rhs |-> rhs]
Comment(text) == [kind |-> "comment", text |-> text]
IfElse(cond, then, els) == [kind |-> "ifelse", cond |-> cond, then |-> then, els |-> els]
Procedure(name, params, returns, body, attrs) ==
    [name |-> name, params |-> params, returns |-> returns, body |-> body,
     attrs |-> attrs]

\* the identifiers the context hands out
boogieBalance == Id("__balance")
boogieThis == Id("__this")
boogieMsgSender == Id("__msg_sender")
boogieMsgValue == Id("__msg_value")

tp_uint256 == IntegerType(Bits256, FALSE)

\* the assumptions and the update of "balance[who] op= amount"
\* UpdateBalance storing the new balance under `this` whoever is updated
UpdateBalance_wrongKey(enc, ovf, op, who, amount) ==
    LET bal == ArrSel(boogieBalance, who)
        r == encodeArithBinaryOp(enc, op, bal, amount, Bits256, FALSE)
    IN (IF enc = "MOD"
        THEN <<Assume(getTCCforExpr(bal, tp_uint256)),
               Assume(getTCCforExpr(amount, tp_uint256))>>
        ELSE <<>>)
       \o (IF ovf
           THEN <<Comment("Implicit assumption that balances cannot overflow"),
                  Assume(r.cc)>>
           ELSE <<>>)
       \o <<Assign(boogieBalance, ArrUpd(boogieBalance, boogieThis, r.expr))>>

UpdateBalance(enc, ovf, op, who, amount) ==
    LET bal == ArrSel(boogieBalance, who)
        r == encodeArithBinaryOp(enc, op, bal, amount, Bits256, FALSE)
    IN (IF enc = "MOD"
        THEN <<Assume(getTCCforExpr(bal, tp_uint256)),
               Assume(getTCCforExpr(amount, tp_uint256))>>
        ELSE <<>>)
       \o (IF ovf
           THEN <<Comment("Implicit assumption that balances cannot overflow"),
                  Assume(r.cc)>>
           ELSE <<>>)
       \o <<Assign(boogieBalance, ArrUpd(boogieBalance, who, r.expr))>>

createTransferProc(enc, ovf) ==
    LET sender_bal == ArrSel(boogieBalance, boogieMsgSender)
        amount == Id("amount")
        geqResult == encodeArithBinaryOp(enc, "GreaterThanOrEqual", sender_bal, amount,
                                         Bits256, FALSE)
        transferImpl ==
            <<Assume(geqResult.expr)>>
            \o UpdateBalance(enc, ovf, "Add", boogieThis, amount)
            \o UpdateBalance(enc, ovf, "Sub", boogieMsgSender, amount)
            \o <<Comment("TODO: call fallback, exception handling")>>
    IN Procedure("__transfer",
                 <<boogieThis, boogieMsgSender, boogieMsgValue, amount>>, <<>>,
                 transferImpl, <<"inline", "transfer">>)

\* createCallProc crediting the value on the failure path as well
createCallProc_creditOnFailure(enc, ovf) ==
    LET result == Id("__result")
        thenBlock ==
            UpdateBalance(enc, ovf, "Add", boogieThis, boogieMsgValue)
            \o <<Assign(result, BoolLit(TRUE))>>
        elseBlock ==
            UpdateBalance(enc, ovf, "Add", boogieThis, boogieMsgValue)
            \o <<Assign(result, BoolLit(FALSE))>>
        callBlock ==
            <<Comment("TODO: call fallback"), IfElse(Id("*"), thenBlock, elseBlock)>>
    IN Procedure("__call",
                 <<boogieThis, boogieMsgSender, boogieMsgValue>>,
                 <<result, Id("__calldata")>>,
                 callBlock, <<"inline", "call">>)

createCallProc(enc, ovf) ==
    LET result == Id("__result")
        thenBlock ==
            UpdateBalance(enc, ovf, "Add", boogieThis, boogieMsgValue)
            \o <<Assign(result, BoolLit(TRUE))>>
        elseBlock == <<Assign(result, BoolLit(FALSE))>>
        callBlock ==
            <<Comment("TODO: call fallback"), IfElse(Id("*"), thenBlock, elseBlock)>>
    IN Procedure("__call",
                 <<boogieThis, boogieMsgSender, boogieMsgValue>>,
                 <<result, Id("__calldata")>>,
                 callBlock, <<"inline", "call">>)

\* createSendProc that credits balance[this] and never debits the sender
createSendProc_noDebit(enc, ovf) ==
    LET amount == Id("amount")
        result == Id("__result")
        sender_bal == ArrSel(boogieBalance, boogieMsgSender)
        thenBlock ==
            UpdateBalance(enc, ovf, "Add", boogieThis, amount)
            \o <<Assign(result, BoolLit(TRUE))>>
        elseBlock == <<Assign(result, BoolLit(FALSE))>>
        senderBalanceGEQ ==
            encodeArithBinaryOp(enc, "GreaterThanOrEqual", sender_bal, amount,
                                Bits256, FALSE)
        transferBlock ==
            <<Assume(senderBalanceGEQ.expr),
              Comment("TODO: call fallback"),
              IfElse(Id("*"), thenBlock, elseBlock)>>
    IN Procedure("__send",
                 <<boogieThis, boogieMsgSender, boogieMsgValue, amount>>, <<result>>,
                 transferBlock, <<"inline", "send">>)

createSendProc(enc, ovf) ==
    LET amount == Id("amount")
        result == Id("__result")
        sender_bal == ArrSel(boogieBalance, boogieMsgSender)
        thenBlock ==
            UpdateBalance(enc, ovf, "Add", boogieThis, amount)
            \o UpdateBalance(enc, ovf, "Sub", boogieMsgSender, amount)
            \o <<Assign(result, BoolLit(TRUE))>>
        elseBlock == <<Assign(result, BoolLit(FALSE))>>
        senderBalanceGEQ ==
            encodeArithBinaryOp(enc, "GreaterThanOrEqual", sender_bal, amount,
                                Bits256, FALSE)
        transferBlock ==
            <<Assume(senderBalanceGEQ.expr),
              Comment("TODO: call fallback"),
              IfElse(Id("*"), thenBlock, elseBlock)>>
    IN Procedure("__send",
                 <<boogieThis, boogieMsgSender, boogieMsgValue, amount>>, <<result>>,
                 transferBlock, <<"inline", "send">>)

\* every assume of the block has a condition
RECURSIVE WellFormed(_)
WellFormed(block) ==
    \A i \in DOMAIN block :
        CASE block[i].kind = "assume" -> block[i].cond # Null
          [] block[i].kind = "ifelse" ->
                WellFormed(block[i].then) /\ WellFormed(block[i].els)
          [] OTHER -> TRUE

\* The run of a block from a store: the store it ends in, or blocked when an
\* assumption does not hold.  The store maps "*" to the outcome picked for
\* the nondeterministic branch.
Running(rho) == [ok |-> TRUE, rho |-> rho]
Blocked(rho) == [ok |-> FALSE, rho |-> rho]

RECURSIVE ExecBlock(_, _)
ExecStmt(s, r) ==
    IF ~r.ok THEN r
    ELSE CASE s.kind = "assume" ->
                IF Eval(s.cond, r.rho) THEN r ELSE Blocked(r.rho)
           [] s.kind = "assign" ->
                Running([r.rho EXCEPT ![s.lhs.name] = Eval(s.rhs, r.rho)])
           [] s.kind = "comment" -> r
           [] s.kind = "ifelse" ->
                IF Eval(s.cond, r.rho) THEN ExecBlock(s.then, r)
                ELSE ExecBlock(s.els, r)

ExecBlock(block, r) ==
    IF block = <<>> THEN r
    ELSE ExecBlock(Tail(block), ExecStmt(Head(block), r))

---------------------------------------------------------------------------
(* The calls into the unit *)

NoCall == [fn |-> "none"]
NoRet == [expr |-> Null, cc |-> Null]

CallEncodeArithBinaryOp(op, lhs, rhs, bits, isSigned) ==
    /\ pc = "idle"
    /\ LET r == encodeArithBinaryOp(encoding, op, lhs, rhs, bits, isSigned)
       IN /\ ret' = [expr |-> r.expr, cc |-> r.cc]
          /\ errors' = errors \o r.errs
    /\ call' = [fn |-> "encodeArithBinaryOp", op |-> op, lhs |-> lhs, rhs |-> rhs,
                bits |-> bits, isSigned |-> isSigned]
    /\ calls' = calls + 1
    /\ UNCHANGED <<encoding, overflow, env, old, pc>>

CallEncodeArithUnaryOp(op, subExpr, bits, isSigned) ==
    /\ pc = "idle"
    /\ LET r == encodeArithUnaryOp(encoding, op, subExpr, bits, isSigned)
       IN /\ ret' = [expr |-> r.expr, cc |-> r.cc]
          /\ errors' = errors \o r.errs
    /\ call' = [fn |-> "encodeArithUnaryOp", op |-> op, lhs |-> subExpr, rhs |-> Null,
                bits |-> bits, isSigned |-> isSigned]
    /\ calls' = calls + 1
    /\ UNCHANGED <<encoding, overflow, env, old, pc>>

---------------------------------------------------------------------------
(* Arithmetic: one encoder call on two variables, evaluated under every    *)
(* valuation of the variables.                                             *)

Widths == 1..MaxBits
\* the values of every enumerated type, signed or unsigned
OperandValues == (-(2^(MaxBits - 1)))..(2^MaxBits - 1)
ArithTokens == AddOps \cup SubOps \cup MulOps \cup DivOps \cup CompareOps

InitArith ==
    /\ encoding \in Encodings
    /\ overflow = FALSE
    /\ errors = <<>>
    /\ calls = 0
    /\ call = NoCall
    /\ ret = NoRet
    /\ env \in [{"lhs", "rhs"} -> OperandValues]
    /\ old = env
    /\ pc = "idle"

NextArith ==
    /\ calls < 1
    /\ \/ \E op \in ArithTokens, bits \in Widths, isSigned \in BOOLEAN :
            CallEncodeArithBinaryOp(op, Id("lhs"), Id("rhs"), bits, isSigned)
       \/ \E bits \in Widths, isSigned \in BOOLEAN :
            CallEncodeArithUnaryOp("Sub", Id("lhs"), bits, isSigned)

SpecArith == InitArith /\ [][NextArith]_vars

\* the representable range of a type
MinOf(bits, isSigned) == IF isSigned THEN -(2^(bits - 1)) ELSE 0
MaxOf(bits, isSigned) == IF isSigned THEN 2^(bits - 1) - 1 ELSE 2^bits - 1
InRange(v, bits, isSigned) == MinOf(bits, isSigned) <= v /\ v <= MaxOf(bits, isSigned)

IsBinaryCall == call.fn = "encodeArithBinaryOp"
IsUnaryCall == call.fn = "encodeArithUnaryOp"
IsNegation == IsUnaryCall /\ call.op = "Sub"

\* the last call is a Modular-mode arithmetic operation whose operands lie
\* in the range of the type (and whose divisor is not zero)
ModArithCase ==
    /\ encoding = "MOD"
    /\ \/ /\ IsBinaryCall
          /\ call.op \in AddOps \cup SubOps \cup MulOps \cup DivOps
          /\ InRange(env["lhs"], call.bits, call.isSigned)
          /\ InRange(env["rhs"], call.bits, call.isSigned)
          /\ call.op \in DivOps => env["rhs"] # 0
       \/ /\ IsNegation
          /\ InRange(env["lhs"], call.bits, call.isSigned)

\* the result of the operation on unbounded integers
Exact ==
    CASE IsNegation -> -env["lhs"]
      [] call.op \in AddOps -> env["lhs"] + env["rhs"]
      [] call.op \in SubOps -> env["lhs"] - env["rhs"]
      [] call.op \in MulOps -> env["lhs"] * env["rhs"]
      [] call.op \in DivOps -> TruncDiv(env["lhs"], env["rhs"])

Wrapped == Eval(ret.expr, env)
Condition == Eval(ret.cc, env)

\* C1: in Modular mode, with operands in range, Add, Sub, Mul, Div and unary
\* negation return a result inside [min,max] of the type and a correctness
\* condition that is true exactly when the unbounded result is inside
\* [min,max].
C1_ModularResultInRange ==
    ModArithCase =>
        /\ ret.cc # Null
        /\ InRange(Wrapped, call.bits, call.isSigned)
        /\ Condition <=> InRange(Exact, call.bits, call.isSigned)

\* 3-bit unsigned 6 + 3 wraps to 1, 3-bit signed 3 + 1 wraps to -4
C1_Witness ==
    /\ ModArithCase
    /\ call.op = "Add"
    /\ call.bits = 3
    /\ \/ ~call.isSigned /\ env["lhs"] = 6 /\ env["rhs"] = 3 /\ Wrapped = 1
       \/ call.isSigned /\ env["lhs"] = 3 /\ env["rhs"] = 1 /\ Wrapped = -4
    /\ ~Condition

ModWrapCase ==
    /\ ModArithCase
    /\ IsBinaryCall
    /\ call.op \in AddOps \cup SubOps \cup MulOps
    /\ ~Condition

Modulus == 2^call.bits

\* C2 as stated: when the condition is false the wrapped result of Add, Sub
\* and Mul is exact - modulus or exact + modulus (signed), exact mod modulus
\* (unsigned).
C2_WrapByOneModulus ==
    ModWrapCase =>
        IF call.isSigned
        THEN Wrapped \in {Exact - Modulus, Exact + Modulus}
        ELSE Wrapped = Exact % Modulus

\* C2, amended: that holds for Add and Sub; a signed Mul yields the value of
\* [min,max] that is congruent to the exact product modulo the modulus, which
\* may lie several moduli away from it.
C2_WrapCongruent ==
    ModWrapCase =>
        IF call.isSigned
        THEN /\ InRange(Wrapped, call.bits, TRUE)
             /\ (Exact - Wrapped) % Modulus = 0
             /\ call.op \notin MulOps =>
                    Wrapped \in {Exact - Modulus, Exact + Modulus}
        ELSE Wrapped = Exact % Modulus

\* a signed product two moduli away from its wrapped value: -4 * -4 = 16
\* wraps to 0 in 3 bits
C2_Witness ==
    /\ ModWrapCase
    /\ call.isSigned
    /\ call.op \in MulOps
    /\ Wrapped = Exact - 2 * Modulus

---------------------------------------------------------------------------
(* Diagnostics: a sequence of encoder calls over every operator token and  *)
(* every kind of operand (a variable, an integer literal, a bit-vector     *)
(* literal).                                                               *)

LeftOperands == {Id("lhs"), Lit(2), BvLit(2, MaxBits)}
RightOperands == {Id("rhs"), Lit(2), BvLit(2, MaxBits)}
\* the tokens enumerated: every case label of the encoders, compound
\* assignments of each group, and tokens without a case
BinaryTokens ==
    {"Add", "Sub", "Mul", "Div", "Mod", "BitAnd", "BitOr", "BitXor", "SAR", "SHL",
     "Exp", "SHR", "Equal", "AssignAdd", "AssignMod", "AssignShl", "AssignShr"}
    \cup CompareOps
UnaryTokens == {"Sub", "BitNot", "Not"}
\* literal operands are enumerated where the code looks at them (Exp) and
\* for one operator that does not (Add)
OperandPairs(op) ==
    IF op \in {"Exp", "Add"} THEN LeftOperands \X RightOperands
    ELSE {<<Id("lhs"), Id("rhs")>>}

InitDiag ==
    /\ encoding \in Encodings
    /\ overflow = FALSE
    /\ errors = <<>>
    /\ calls = 0
    /\ call = NoCall
    /\ ret = NoRet
    /\ env = [n \in {"lhs", "rhs"} |-> 1]
    /\ old = env
    /\ pc = "idle"

NextDiag ==
    /\ calls < MaxCalls
    /\ \/ \E op \in BinaryTokens, isSigned \in BOOLEAN :
            \E operands \in OperandPairs(op) :
                CallEncodeArithBinaryOp(op, operands[1], operands[2], MaxBits, isSigned)
       \/ \E op \in UnaryTokens, subExpr \in LeftOperands, isSigned \in BOOLEAN :
            CallEncodeArithUnaryOp(op, subExpr, MaxBits, isSigned)

SpecDiag == InitDiag /\ [][NextDiag]_vars

\* what each mode supports
BothLiterals(enc, c) ==
    IF enc = "BV" THEN IsBvLit(c.lhs) /\ IsBvLit(c.rhs)
    ELSE IsIntLit(c.lhs) /\ IsIntLit(c.rhs)

ModeSupports(enc, c) ==
    IF c.fn = "encodeArithUnaryOp"
    THEN c.op = "Sub" \/ (enc = "BV" /\ c.op = "BitNot")
    ELSE \/ c.op \in AddOps \cup SubOps \cup MulOps \cup DivOps \cup CompareOps
         \/ enc = "INT" /\ c.op \in ModOps
         \/ enc = "BV" /\ c.op \in BitAndOps \cup BitOrOps \cup BitXorOps
                                   \cup SarOps \cup ShlOps
         \/ c.op = "Exp" /\ BothLiterals(enc, c)

ModeName(enc) ==
    CASE enc = "INT" -> "int" [] enc = "BV" -> "bv" [] enc = "MOD" -> "mod"

\* the report names the mode and, but for exponentiation, the operator
ReportsOn(e, enc, c) ==
    LET mode == ModeName(enc)
    IN IF c.fn = "encodeArithBinaryOp" /\ c.op = "Exp"
       THEN e.text = CASE mode = "int" -> "Exponentiation is not supported in 'int' encoding"
                       [] mode = "bv" -> "Exponentiation is not supported in 'bv' encoding"
                       [] mode = "mod" -> "Exponentiation is not supported in 'mod' encoding"
       ELSE /\ e.token = c.op
            /\ e.text =
                 IF c.fn = "encodeArithBinaryOp"
                 THEN CASE mode = "int" -> "Unsupported binary operator in 'int' encoding "
                        [] mode = "bv" -> "Unsupported binary operator in 'bv' encoding "
                        [] mode = "mod" -> "Unsupported binary operator in 'mod' encoding "
                 ELSE CASE mode = "int" -> "Unsupported unary operator in 'int' encoding "
                        [] mode = "bv" -> "Unsupported unary operator in 'bv' encoding "
                        [] mode = "mod" -> "Unsupported unary operator in 'mod' encoding "

\* C9: an encoder call on an operator the mode does not support (also an
\* exponentiation whose base or exponent is no literal) appends exactly one
\* error to the sink, returns the sentinel with no correctness condition and
\* does not abort; a supported call appends nothing.  By induction the sink
\* holds one error per unsupported call, in call order.
C9_OneErrorPerUnsupportedCall ==
    [][calls' = calls + 1 =>
         IF ModeSupports(encoding, call')
         THEN errors' = errors /\ ret'.expr # Id(ERR_EXPR)
         ELSE /\ Len(errors') = Len(errors) + 1
              /\ SubSeq(errors', 1, Len(errors)) = errors
              /\ ReportsOn(errors'[Len(errors')], encoding, call')
              /\ ret' = [expr |-> Id(ERR_EXPR), cc |-> Null]
              /\ pc' = "idle"]_vars

\* two unsupported calls in a row, the second an exponentiation with a
\* variable base in BitVector mode
C9_Witness ==
    /\ encoding = "BV"
    /\ calls = 2
    /\ Len(errors) = 2
    /\ IsBinaryCall /\ call.op = "Exp" /\ call.lhs = Id("lhs")
    /\ ret.expr = Id(ERR_EXPR)

IsEncoderCall == IsBinaryCall \/ IsUnaryCall

\* C10: the correctness condition is absent for every operator and operand
\* in Mathematical and in BitVector mode and for every comparison in Modular
\* mode; it is present only for Modular-mode arithmetic operators.
C10_ConditionOnlyModularArith ==
    IsEncoderCall =>
        /\ encoding \in {"INT", "BV"} => ret.cc = Null
        /\ (IsBinaryCall /\ call.op \in CompareOps) => ret.cc = Null
        /\ ret.cc # Null =>
              /\ encoding = "MOD"
              /\ \/ IsNegation
                 \/ /\ IsBinaryCall
                    /\ call.op \in AddOps \cup SubOps \cup MulOps \cup DivOps \cup {"Exp"}

\* a supported BitVector addition and a Mathematical negation, without a
\* condition
C10_Witness ==
    /\ ret.cc = Null
    /\ \/ encoding = "BV" /\ IsBinaryCall /\ call.op = "Add" /\ ret.expr.kind = "bvbin"
       \/ encoding = "INT" /\ IsNegation /\ ret.expr.kind = "neg"

---------------------------------------------------------------------------
(* The synthesized procedures: one of them is created, invoked on a state  *)
(* of the balance map and run to its end.                                  *)

\* the keys of the balance map
Addresses == {"A", "B", "C"}
Amounts == 0..(2^Bits256 - 1)
Creators == {"createTransferProc", "createCallProc", "createSendProc"}

CallCreateTransferProc ==
    /\ pc = "idle" /\ call = NoCall
    /\ call' = [fn |-> "createTransferProc"]
    /\ ret' = createTransferProc(encoding, overflow)
    /\ calls' = calls + 1
    /\ UNCHANGED <<encoding, overflow, errors, env, old, pc>>

CallCreateCallProc ==
    /\ pc = "idle" /\ call = NoCall
    /\ call' = [fn |-> "createCallProc"]
    /\ ret' = createCallProc(encoding, overflow)
    /\ calls' = calls + 1
    /\ UNCHANGED <<encoding, overflow, errors, env, old, pc>>

CallCreateSendProc ==
    /\ pc = "idle" /\ call = NoCall
    /\ call' = [fn |-> "createSendProc"]
    /\ ret' = createSendProc(encoding, overflow)
    /\ calls' = calls + 1
    /\ UNCHANGED <<encoding, overflow, errors, env, old, pc>>

\* A call site binds the parameters of the created procedure.  A body with
\* an assume that has no condition is no program and is never entered.
InvokeProc(this, sender, value, amount) ==
    /\ pc = "idle" /\ call.fn \in Creators
    /\ WellFormed(ret.body)
    /\ env' = [env EXCEPT !["__this"] = this, !["__msg_sender"] = sender,
                          !["__msg_value"] = value, !["amount"] = amount]
    /\ old' = env'
    /\ pc' = "entry"
    /\ UNCHANGED <<encoding, overflow, errors, calls, call, ret>>

\* The run of the entered body with `star` as the outcome of its
\* nondeterministic branch.
Outcome(star) == ExecBlock(ret.body, Running([env EXCEPT !["*"] = star]))

\* The body runs to its end; a run that fails an assumption is no run.
ExecuteProc(star) ==
    /\ pc = "entry"
    /\ Outcome(star).ok
    /\ env' = [Outcome(star).rho EXCEPT !["*"] = FALSE]
    /\ pc' = "done"
    /\ UNCHANGED <<encoding, overflow, errors, calls, call, ret, old>>

InitProc ==
    /\ encoding \in Encodings
    /\ overflow \in BOOLEAN
    /\ errors = <<>>
    /\ calls = 0
    /\ call = NoCall
    /\ ret = NoRet
    /\ \E balance \in [Addresses -> Amounts] :
          env = [n \in {"__balance", "__this", "__msg_sender", "__msg_value",
                        "amount", "__result", "*"} |->
                   CASE n = "__balance" -> balance
                     [] n \in {"__this", "__msg_sender"} -> "A"
                     [] n \in {"__msg_value", "amount"} -> 0
                     [] OTHER -> FALSE]
    /\ old = env
    /\ pc = "idle"

NextProc ==
    \/ CallCreateTransferProc
    \/ CallCreateCallProc
    \/ CallCreateSendProc
    \/ \E this \in Addresses, sender \in Addresses, x \in Amounts :
          IF call.fn = "createCallProc"
          THEN InvokeProc(this, sender, x, 0)
          ELSE InvokeProc(this, sender, 0, x)
    \/ \E star \in BOOLEAN : ExecuteProc(star)

SpecProc == InitProc /\ [][NextProc]_vars

\* the state of a run of the created procedure
ProcIs(creator) == call.fn = creator
AtEntry == pc = "entry"
Done == pc = "done"
This == old["__this"]
Sender == old["__msg_sender"]
Value == old["__msg_value"]
Amount == old["amount"]
BalanceBefore == old["__balance"]
BalanceAfter == env["__balance"]
Result == env["__result"]
MaxBalance == 2^Bits256 - 1
\* the encodings without wraparound: unbounded integers, and modular
\* arithmetic under the assumption that balances do not overflow
NoWrapConfig == encoding = "INT" \/ (encoding = "MOD" /\ overflow)

RECURSIVE SumOver(_, _)
SumOver(f, S) ==
    IF S = {} THEN 0
    ELSE LET a == CHOOSE x \in S : TRUE IN f[a] + SumOver(f, S \ {a})
Total(balance) == SumOver(balance, Addresses)

Modulus256 == MaxBalance + 1
\* addition as the active encoding of uint256 reads it: on bit vectors in
\* BitVector mode, on integers otherwise
SumIn(enc, a, b) == IF enc = "BV" THEN (a + b) % Modulus256 ELSE a + b

IsTransferRun == Done /\ ProcIs("createTransferProc") /\ This # Sender

\* C3 as stated: transfer with this = A, sender = B (two addresses) and
\* balance[B] >= amount ends with balance[A]' = balance[A] + amount,
\* balance[B]' = balance[B] - amount, the sum of the two kept and every other
\* entry unchanged.
C3_TransferMovesAmount ==
    IsTransferRun =>
        /\ BalanceAfter[This] = SumIn(encoding, BalanceBefore[This], Amount)
        /\ BalanceAfter[Sender] = BalanceBefore[Sender] - Amount
        /\ SumIn(encoding, BalanceAfter[This], BalanceAfter[Sender])
              = SumIn(encoding, BalanceBefore[This], BalanceBefore[Sender])
        /\ \A a \in Addresses \ {This, Sender} : BalanceAfter[a] = BalanceBefore[a]

\* C3, amended: that is the final state in Mathematical mode, in Modular
\* mode with overflowChecking on, and in BitVector mode with + read as the
\* bit-vector addition.  In Modular mode without overflowChecking
\* balance[A]' is balance[A] + amount reduced modulo the modulus, the sum of
\* the two entries is kept modulo the modulus only, and the rest holds.
C3_TransferMovesAmountModuloWrap ==
    IsTransferRun =>
        /\ BalanceAfter[This] =
              IF NoWrapConfig THEN BalanceBefore[This] + Amount
              ELSE (BalanceBefore[This] + Amount) % Modulus256
        /\ BalanceAfter[Sender] = BalanceBefore[Sender] - Amount
        /\ IF NoWrapConfig
           THEN BalanceAfter[This] + BalanceAfter[Sender]
                   = BalanceBefore[This] + BalanceBefore[Sender]
           ELSE (BalanceAfter[This] + BalanceAfter[Sender]) % Modulus256
                   = (BalanceBefore[This] + BalanceBefore[Sender]) % Modulus256
        /\ \A a \in Addresses \ {This, Sender} : BalanceAfter[a] = BalanceBefore[a]

\* a transfer of a positive amount that ended, with the overflow assumption
\* in force
C3_Witness ==
    /\ IsTransferRun
    /\ encoding = "MOD" /\ overflow
    /\ Amount > 0
    /\ BalanceAfter[This] = BalanceBefore[This] + Amount
    /\ BalanceAfter[Sender] = BalanceBefore[Sender] - Amount

\* C4 as stated: transfer, send and call keep the sum of all entries of the
\* balance map on every run that passes the assumptions.
C4_SumOfBalancesKept ==
    Done => Total(BalanceAfter) = Total(BalanceBefore)

\* what a run adds to the sum: a successful call credits value to
\* balance[this] and debits nothing
Credited ==
    IF ProcIs("createCallProc") /\ Result THEN Value ELSE 0

\* C4, amended: transfer and send keep the sum, and so does a failed call;
\* a successful call raises it by value.  This is exact in Mathematical mode
\* and in Modular mode with overflowChecking on, and holds modulo the
\* modulus in Modular mode without overflowChecking and in BitVector mode.
C4_SumKeptButForCallCredit ==
    Done =>
        IF NoWrapConfig
        THEN Total(BalanceAfter) = Total(BalanceBefore) + Credited
        ELSE (Total(BalanceAfter) - Total(BalanceBefore) - Credited) % Modulus256 = 0

\* a send that moved a positive amount between two addresses and kept the sum
C4_Witness ==
    /\ Done /\ ProcIs("createSendProc") /\ Result
    /\ This # Sender /\ Amount > 0
    /\ BalanceAfter[This] # BalanceBefore[This]
    /\ Total(BalanceAfter) = Total(BalanceBefore)

IsBranching == ProcIs("createCallProc") \/ ProcIs("createSendProc")
\* what the procedure moves: msg.value in call, amount in send
Moved == IF ProcIs("createCallProc") THEN Value ELSE Amount
\* the assumed precondition: send has one, call has none
Precondition ==
    ProcIs("createSendProc") => BalanceBefore[Sender] >= Amount
\* a uint256 result as the configuration computes it
Wrap(v) == IF NoWrapConfig THEN v ELSE v % Modulus256
Credit(balance) == [balance EXCEPT ![This] = Wrap(@ + Moved)]
Debit(balance) == [balance EXCEPT ![Sender] = Wrap(@ - Moved)]

\* ExecuteProc(star) is enabled: the outcome can be reached from the state
CanEnd(star) == AtEntry /\ Outcome(star).ok

\* C5 as stated: in call and send both outcomes can be reached from every
\* state that passes the precondition; the failure path returns false and
\* leaves the balance map as it was; the map changes only on the success
\* path, which returns true, call crediting value to balance[this] and send
\* moving amount from balance[sender] to balance[this].
C5_BothOutcomesReachable ==
    /\ (AtEntry /\ IsBranching /\ Precondition) =>
          CanEnd(TRUE) /\ CanEnd(FALSE)
    /\ (Done /\ IsBranching) =>
          /\ ~Result => BalanceAfter = BalanceBefore
          /\ BalanceAfter # BalanceBefore => Result
          /\ Result =>
                BalanceAfter =
                   IF ProcIs("createCallProc")
                   THEN [BalanceBefore EXCEPT ![This] = SumIn(encoding, @, Value)]
                   ELSE [[BalanceBefore EXCEPT ![This] = SumIn(encoding, @, Amount)]
                            EXCEPT ![Sender] = @ - Amount]

\* the success path passes its assumptions: with overflowChecking on in
\* Modular mode the credited balance must not overflow
SuccessPathOpen ==
    (encoding = "MOD" /\ overflow) => BalanceBefore[This] + Moved <= MaxBalance

\* C5, amended: the failure outcome can be reached from every state that
\* passes the precondition, and the success outcome from those in which the
\* assumptions of the success path hold as well (with overflowChecking on in
\* Modular mode: balance[this] plus the moved amount does not overflow).  The
\* failure path returns false and leaves the map as it was; the success path
\* returns true and is the only one that changes the map: call credits value
\* to balance[this], send credits amount to balance[this] and then debits it
\* from balance[sender], each result reduced modulo the modulus in Modular
\* mode without overflowChecking and in BitVector mode.
C5_OutcomesAndFrame ==
    /\ (AtEntry /\ IsBranching) =>
          /\ CanEnd(FALSE) <=> Precondition
          /\ CanEnd(TRUE) <=> (Precondition /\ SuccessPathOpen)
    /\ (Done /\ IsBranching) =>
          IF Result
          THEN BalanceAfter =
                  IF ProcIs("createCallProc") THEN Credit(BalanceBefore)
                  ELSE Debit(Credit(BalanceBefore))
          ELSE BalanceAfter = BalanceBefore

\* a call that succeeded under the overflow assumption and credited a
\* positive value, and one that failed from the same kind of state
C5_Witness ==
    /\ Done /\ ProcIs("createCallProc")
    /\ encoding = "MOD" /\ overflow
    /\ Value > 0
    /\ \/ Result /\ BalanceAfter[This] = BalanceBefore[This] + Value
       \/ ~Result /\ BalanceAfter = BalanceBefore

---------------------------------------------------------------------------
(* Range conditions: getTCCforExpr on a variable x of every type, the      *)
(* condition evaluated under every value of x.                             *)

CallGetTCCforExpr(tp) ==
    /\ pc = "idle"
    /\ LET r == getTCCforExpr(Id("x"), tp)
       IN /\ ret' = [expr |-> r, cc |-> Null]
          /\ pc' = IF r = Abort THEN "abort" ELSE "idle"
    /\ call' = [fn |-> "getTCCforExpr", tp |-> tp]
    /\ calls' = calls + 1
    /\ UNCHANGED <<encoding, overflow, errors, env, old>>

IntegerTypes == {IntegerType(bits, isSigned) : bits \in 1..MaxBits, isSigned \in BOOLEAN}
EnumTypes == {EnumType(members) : members \in 1..MaxMembers}
\* types that are not bit-precise
PlainTypes ==
    {OtherType("Bool"), OtherType("Address"), OtherType("Mapping"),
     TupleType(<<IntegerType(1, FALSE), OtherType("Bool")>>)}
\* bit-precise types that have no width
WidthlessTypes ==
    {FixedBytesType(1), TupleType(<<IntegerType(1, FALSE), NoType>>)}
TccTypes == IntegerTypes \cup EnumTypes \cup PlainTypes \cup WidthlessTypes
\* values of x inside and outside every range
TccValues == (-(2^MaxBits))..(2^MaxBits)

InitTcc ==
    /\ encoding \in Encodings
    /\ overflow = FALSE
    /\ errors = <<>>
    /\ calls = 0
    /\ call = NoCall
    /\ ret = NoRet
    /\ env \in [{"x"} -> TccValues]
    /\ old = env
    /\ pc = "idle"

NextTcc ==
    /\ calls < 1
    /\ \E tp \in TccTypes : CallGetTCCforExpr(tp)

SpecTcc == InitTcc /\ [][NextTcc]_vars

IsTccCall == call.fn = "getTCCforExpr" /\ pc = "idle"
TccHolds == Eval(ret.expr, env)

\* C6: the condition built for x of an integer type of width w is true
\* exactly when 0 <= x <= 2^w - 1 (unsigned) or -2^(w-1) <= x <= 2^(w-1) - 1
\* (signed); for an enum type exactly when 0 <= x < memberCount; for a type
\* that is not bit-precise it is the literal true.
C6_TccIsTypeRange ==
    IsTccCall =>
        LET t == call.tp
            x == env["x"]
        IN /\ (t.category = "Integer" /\ ~t.isSigned) =>
                (TccHolds <=> (0 <= x /\ x <= 2^t.bits - 1))
           /\ (t.category = "Integer" /\ t.isSigned) =>
                (TccHolds <=> (-(2^(t.bits - 1)) <= x /\ x <= 2^(t.bits - 1) - 1))
           /\ t.category = "Enum" =>
                (TccHolds <=> (0 <= x /\ x < t.members))
           /\ ~isBitPreciseType(t) => ret.expr = BoolLit(TRUE)

\* x equals the member count of an enum, one past its last member, and the
\* condition built for it is false
C6_Witness ==
    /\ IsTccCall
    /\ call.tp.category = "Enum"
    /\ env["x"] = call.tp.members
    /\ ~TccHolds

---------------------------------------------------------------------------
(* Conversions: a chain of conversions applied to a variable x or to a     *)
(* literal; each conversion takes the expression the previous one          *)
(* returned, typed with the previous target type.                          *)

CallCheckImplicitBvConversion(expr, exprType, targetType) ==
    /\ pc = "idle"
    /\ LET r == checkImplicitBvConversion(expr, exprType, targetType)
       IN /\ ret' = [expr |-> r, cc |-> Null]
          /\ pc' = IF r = Abort THEN "abort" ELSE "idle"
    /\ call' = [fn |-> "checkImplicitBvConversion", expr |-> expr,
                exprType |-> exprType, targetType |-> targetType, prev |-> call]
    /\ calls' = calls + 1
    /\ UNCHANGED <<encoding, overflow, errors, env, old>>

CallCheckExplicitBvConversion(expr, exprType, targetType) ==
    /\ pc = "idle"
    /\ LET r == checkExplicitBvConversion(expr, exprType, targetType)
       IN /\ ret' = [expr |-> r, cc |-> Null]
          /\ pc' = IF r = Abort THEN "abort" ELSE "idle"
    /\ call' = [fn |-> "checkExplicitBvConversion", expr |-> expr,
                exprType |-> exprType, targetType |-> targetType, prev |-> call]
    /\ calls' = calls + 1
    /\ UNCHANGED <<encoding, overflow, errors, env, old>>

ConvTypes == IntegerTypes \cup {OtherType("Bool"), FixedBytesType(1)}
ConvLiterals == {Lit(-1), Lit(1)}
\* the bit patterns of the widest type
BitPatterns == 0..(2^MaxBits - 1)
\* x holds a bit pattern of its type
FitsType(v, tp) == tp.category = "Integer" => v < 2^tp.bits

InitConv ==
    /\ encoding = "BV"
    /\ overflow = FALSE
    /\ errors = <<>>
    /\ calls = 0
    /\ call = NoCall
    /\ ret = NoRet
    /\ env \in [{"x"} -> BitPatterns]
    /\ old = env
    /\ pc = "idle"

NextConv ==
    /\ calls < MaxCalls
    /\ \E targetType \in ConvTypes :
         \/ /\ calls = 0
            /\ \E exprType \in ConvTypes, expr \in {Id("x")} \cup ConvLiterals :
                 /\ expr = Id("x") => FitsType(env["x"], exprType)
                 /\ \/ CallCheckImplicitBvConversion(expr, exprType, targetType)
                    \/ CallCheckExplicitBvConversion(expr, exprType, targetType)
         \/ /\ calls > 0
            /\ \/ CallCheckImplicitBvConversion(ret.expr, call.targetType, targetType)
               \/ CallCheckExplicitBvConversion(ret.expr, call.targetType, targetType)

SpecConv == InitConv /\ [][NextConv]_vars

IsConversion(c) == c.fn \in {"checkImplicitBvConversion", "checkExplicitBvConversion"}
IsIntegerType(tp) == tp.category = "Integer"
\* the last two calls widened the variable x, holding a bit pattern of an
\* integer type T, from T to a wider integer type U and then converted it
\* back explicitly from U to T
WidenThenNarrow ==
    /\ pc = "idle"
    /\ call.fn = "checkExplicitBvConversion"
    /\ IsConversion(call.prev)
    /\ call.prev.expr = Id("x")
    /\ IsIntegerType(call.prev.exprType)
    /\ FitsType(env["x"], call.prev.exprType)
    /\ IsIntegerType(call.prev.targetType)
    /\ call.prev.targetType.bits > call.prev.exprType.bits
    /\ call.exprType = call.prev.targetType
    /\ call.targetType = call.prev.exprType

\* C7: converting a variable x of an integer type T to a wider integer type
\* U (implicitly or explicitly) and then explicitly from U back to T gives
\* an expression whose value is the original bit pattern of x.
C7_WidenNarrowRoundTrip ==
    WidenThenNarrow => Eval(ret.expr, env) = env["x"]

\* a signed x with its sign bit set was sign-extended and narrowed back
C7_Witness ==
    /\ WidenThenNarrow
    /\ call.prev.exprType.isSigned
    /\ env["x"] >= 2^(call.prev.exprType.bits - 1)
    /\ call.expr.kind = "bvsignext"
    /\ ret.expr.kind = "bvextract"
    /\ Eval(call.expr, env) # env["x"]
    /\ Eval(ret.expr, env) = env["x"]

---------------------------------------------------------------------------
(* selectToUpdate: one call on a select chain over a nested map.  The      *)
(* identifier numbered d names a map nested d deep; the identifier         *)
(* numbered 0 names a plain value.                                         *)

Indices == 0..MaxIndex

\* a map nested depth deep whose elements depend on seed and on their path
RECURSIVE BaseMap(_, _)
BaseMap(depth, seed) ==
    IF depth = 0 THEN seed % (MaxSeed + 1)
    ELSE [i \in Indices |-> BaseMap(depth - 1, seed * (MaxIndex + 2) + i + 1)]

\* base[path[1]][path[2]]...[path[n]]
RECURSIVE SelectChain(_, _)
SelectChain(base, path) ==
    IF path = <<>> THEN base
    ELSE ArrSel(SelectChain(base, SubSeq(path, 1, Len(path) - 1)),
                Lit(path[Len(path)]))

Paths == UNION {[1..n -> Indices] : n \in 1..MaxDepth}
\* a variable, and a literal that no map contains
SelValues == {Id(0), Lit(MaxSeed + 1)}
\* expressions that are no select
NonSelects == {Id(1), Lit(0), ArrUpd(Id(1), Lit(0), Lit(0))}

CallSelectToUpdate(sel, value) ==
    /\ pc = "idle"
    /\ LET r == selectToUpdate(sel, value)
       IN /\ ret' = [expr |-> r, cc |-> Null]
          /\ pc' = IF r = Abort THEN "abort" ELSE "idle"
    /\ call' = [fn |-> "selectToUpdate", sel |-> sel, value |-> value]
    /\ calls' = calls + 1
    /\ UNCHANGED <<encoding, overflow, errors, env, old>>

InitSel ==
    /\ encoding = "INT"
    /\ overflow = FALSE
    /\ errors = <<>>
    /\ calls = 0
    /\ call = NoCall
    /\ ret = NoRet
    /\ \E seed \in 0..MaxSeed :
         env = [depth \in 0..MaxDepth |-> BaseMap(depth, seed + depth)]
    /\ old = env
    /\ pc = "idle"

NextSel ==
    /\ calls < 1
    /\ \E value \in SelValues :
         \/ \E path \in Paths :
              CallSelectToUpdate(SelectChain(Id(Len(path)), path), value)
         \/ \E sel \in NonSelects : CallSelectToUpdate(sel, value)

SpecSel == InitSel /\ [][NextSel]_vars

IsSelectToUpdateCall == call.fn = "selectToUpdate"

\* the indices of a select chain, outermost first, and the chain's base
RECURSIVE PathOf(_)
PathOf(sel) ==
    IF IsSelExpr(sel) THEN Append(PathOf(sel.base), sel.idx.val) ELSE <<>>
RECURSIVE BaseOf(_)
BaseOf(sel) == IF IsSelExpr(sel) THEN BaseOf(sel.base) ELSE sel

\* Update(base, i, Update(Select(base,i), j, Update(Select(Select(base,i),j), k, v)))
ThreeLevelShape(base, i, j, k, v) ==
    ArrUpd(base, Lit(i),
           ArrUpd(ArrSel(base, Lit(i)), Lit(j),
                  ArrUpd(ArrSel(ArrSel(base, Lit(i)), Lit(j)), Lit(k), v)))

\* C8: for a select chain of depth n >= 1 and a value v, selectToUpdate
\* returns an update u of the chain's base such that selecting the same
\* index path from u yields v and selecting another outermost index from u
\* yields what the base holds there; for depth 3, u is
\* Update(base, i, Update(Select(base,i), j, Update(Select(Select(base,i),j), k, v)));
\* on an expression that is no select the call fails.
C8_SelectToUpdate ==
    IsSelectToUpdateCall =>
        IF IsSelExpr(call.sel)
        THEN LET u == ret.expr
                 path == PathOf(call.sel)
                 base == BaseOf(call.sel)
             IN /\ pc = "idle"
                /\ Eval(SelectChain(u, path), env) = Eval(call.value, env)
                /\ \A i \in Indices \ {path[1]} :
                      Eval(ArrSel(u, Lit(i)), env) = Eval(ArrSel(base, Lit(i)), env)
                /\ Len(path) = 3 =>
                      u = ThreeLevelShape(base, path[1], path[2], path[3], call.value)
        ELSE pc = "abort" /\ ret.expr = Abort

\* a chain of depth 3 was given a value that the selected element did not
\* hold before
C8_Witness ==
    /\ IsSelectToUpdateCall
    /\ IsSelExpr(call.sel)
    /\ Len(PathOf(call.sel)) = 3
    /\ Eval(call.sel, env) # Eval(call.value, env)
    /\ Eval(SelectChain(ret.expr, PathOf(call.sel)), env) = Eval(call.value, env)

---------------------------------------------------------------------------
(* Tuples: one conversion of a two-element tuple expression between tuple  *)
(* types whose components are integer types or absent.                     *)

TupleComponents == IntegerTypes \cup {NoType}
TupleTypes == {TupleType(<<a, b>>) : a \in TupleComponents, b \in TupleComponents}
TupleExprs == {TupleExpr(<<Id("x"), Id("y")>>), TupleExpr(<<Id("x"), Lit(1)>>)}

InitTuple ==
    /\ encoding = "BV"
    /\ overflow = FALSE
    /\ errors = <<>>
    /\ calls = 0
    /\ call = NoCall
    /\ ret = NoRet
    /\ env \in [{"x", "y"} -> 0..1]
    /\ old = env
    /\ pc = "idle"

NextTuple ==
    /\ calls < 1
    /\ \E expr \in TupleExprs, exprType \in TupleTypes, targetType \in TupleTypes :
         \/ CallCheckImplicitBvConversion(expr, exprType, targetType)
         \/ CallCheckExplicitBvConversion(expr, exprType, targetType)

SpecTuple == InitTuple /\ [][NextTuple]_vars

\* the conversion of one component by the entry point that was called
ComponentConversion(fn, expr, exprType, targetType) ==
    IF fn = "checkImplicitBvConversion"
    THEN checkImplicitBvConversion(expr, exprType, targetType)
    ELSE checkExplicitBvConversion(expr, exprType, targetType)

\* the last call converted a tuple expression to a tuple type of integer
\* types, every component of which can be converted on its own
TupleCase ==
    /\ IsConversion(call)
    /\ IsTupleExpr(call.expr)
    /\ call.exprType.category = "Tuple"
    /\ call.targetType.category = "Tuple"
    /\ \E i \in DOMAIN call.targetType.components :
         call.targetType.components[i] # NoType
    /\ \A i \in DOMAIN call.targetType.components :
         call.targetType.components[i] # NoType =>
            /\ call.exprType.components[i] # NoType
            /\ ComponentConversion(call.fn, call.expr.elems[i],
                   call.exprType.components[i], call.targetType.components[i]) # Abort

\* the tuple of the converted components, absent where the target is absent
ElementWise ==
    TupleExpr([i \in DOMAIN call.targetType.components |->
        IF call.targetType.components[i] # NoType
        THEN ComponentConversion(call.fn, call.expr.elems[i],
                 call.exprType.components[i], call.targetType.components[i])
        ELSE Null])

\* C11: both checkImplicitBvConversion and checkExplicitBvConversion, given a
\* tuple expression and a tuple target type of fixed-width components,
\* return the tuple of the converted components (absent where the target
\* component is absent) and do not fail.
C11_TupleElementWise ==
    TupleCase => (pc = "idle" /\ ret.expr = ElementWise)

\* checkImplicitBvConversion alone does so
C11_ImplicitElementWise ==
    (TupleCase /\ call.fn = "checkImplicitBvConversion") =>
        (pc = "idle" /\ ret.expr = ElementWise)

\* an explicit conversion to a tuple of two integer types ended in the
\* failed solAssert of getBits
C11_Witness ==
    /\ TupleCase
    /\ call.fn = "checkExplicitBvConversion"
    /\ \A i \in DOMAIN call.targetType.components :
         call.targetType.components[i] # NoType
    /\ pc = "abort"
    /\ ret.expr = Abort

---------------------------------------------------------------------------
(* Exponentiation: one encoder call on a literal base and a literal        *)
(* non-negative exponent.                                                  *)

ExpBases == (-(2^(MaxBits - 1)))..(2^MaxBits - 1)
ExpExponents == 0..MaxExponent

InitExp ==
    /\ encoding \in Encodings
    /\ overflow = FALSE
    /\ errors = <<>>
    /\ calls = 0
    /\ call = NoCall
    /\ ret = NoRet
    /\ env = [lhs |-> 0, rhs |-> 0]
    /\ old = env
    /\ pc = "idle"

NextExp ==
    /\ calls < 1
    /\ \E base \in ExpBases, exponent \in ExpExponents,
          bits \in Widths, isSigned \in BOOLEAN :
         /\ InRange(base, bits, isSigned)
         /\ CallEncodeArithBinaryOp("Exp", Lit(base), Lit(exponent), bits, isSigned)

SpecExp == InitExp /\ [][NextExp]_vars

\* the last call is a Modular-mode exponentiation of two literals
ModExpCase ==
    /\ encoding = "MOD"
    /\ IsBinaryCall
    /\ call.op = "Exp"
    /\ IsIntLit(call.lhs)
    /\ IsIntLit(call.rhs)
    /\ call.rhs.val >= 0
\* the power on unbounded integers
ExactPower == Pow(call.lhs.val, call.rhs.val)

\* C12: in Modular mode the exponentiation of a literal base by a literal
\* non-negative exponent returns a result in the range of the type and a
\* correctness condition that is true exactly when the exact power is in
\* that range.
C12_ModExpCondition ==
    ModExpCase =>
        /\ InRange(Eval(ret.expr, env), call.bits, call.isSigned)
        /\ Eval(ret.cc, env) <=> InRange(ExactPower, call.bits, call.isSigned)

\* the power of a negative base is the smallest value of the signed type,
\* and the condition returned for it is false
C12_Witness ==
    /\ ModExpCase
    /\ call.isSigned
    /\ call.bits = MaxBits
    /\ call.lhs.val < 0
    /\ ExactPower = MinOf(call.bits, call.isSigned)
    /\ InRange(Eval(ret.expr, env), call.bits, call.isSigned)
    /\ ~Eval(ret.cc, env)

---------------------------------------------------------------------------
(* The type classifier: isBitPreciseType and getBits called on a type, and *)
(* their callers getTCCforExpr and the conversions called with it.         *)

\* what a call returns that returns no expression
Returned(v) == [kind |-> "value", val |-> v]

CallIsBitPreciseType(tp) ==
    /\ pc = "idle"
    /\ ret' = [expr |-> Returned(isBitPreciseType(tp)), cc |-> Null]
    /\ call' = [fn |-> "isBitPreciseType", tp |-> tp]
    /\ calls' = calls + 1
    /\ UNCHANGED <<encoding, overflow, errors, env, old, pc>>

CallGetBits(tp) ==
    /\ pc = "idle"
    /\ LET r == IF HasBits(tp) THEN Returned(getBits(tp)) ELSE Abort
       IN /\ ret' = [expr |-> r, cc |-> Null]
          /\ pc' = IF r = Abort THEN "abort" ELSE "idle"
    /\ call' = [fn |-> "getBits", tp |-> tp]
    /\ calls' = calls + 1
    /\ UNCHANGED <<encoding, overflow, errors, env, old>>

FixedBytesTypes == {FixedBytesType(bytes) : bytes \in 1..MaxBits}
ClassifiedTupleTypes ==
    {TupleType(<<a, b>>) :
        a \in {IntegerType(1, FALSE), FixedBytesType(1), NoType},
        b \in {EnumType(1), OtherType("Bool"), NoType}}
ClassifiedTypes ==
    IntegerTypes \cup EnumTypes \cup FixedBytesTypes \cup PlainTypes
        \cup ClassifiedTupleTypes

InitBits ==
    /\ encoding \in Encodings
    /\ overflow = FALSE
    /\ errors = <<>>
    /\ calls = 0
    /\ call = NoCall
    /\ ret = NoRet
    /\ env \in [{"x"} -> 0..1]
    /\ old = env
    /\ pc = "idle"

NextBits ==
    /\ calls < 1
    /\ \E tp \in ClassifiedTypes :
         \/ CallIsBitPreciseType(tp)
         \/ CallGetBits(tp)
         \/ CallGetTCCforExpr(tp)
         \/ CallCheckImplicitBvConversion(Id("x"), tp, tp)
         \/ CallCheckExplicitBvConversion(Id("x"), tp, tp)

SpecBits == InitBits /\ [][NextBits]_vars

\* the type handed to the last call
CalledType == IF IsConversion(call) THEN call.targetType ELSE call.tp
IsScalarFixedWidth(tp) == tp.category \in {"Integer", "FixedBytes", "Enum"}

\* C13: for every Integer, FixedBytes or Enum type getBits returns a width
\* and does not fail (the declared width of an Integer, 256 for an Enum), so
\* getTCCforExpr and the conversions do not fail on such a type; and
\* isBitPreciseType of a tuple is true exactly when every present component
\* is bit-precise.
C13_FixedWidthHasWidth ==
    calls > 0 =>
        /\ IsScalarFixedWidth(CalledType) =>
              /\ isBitPreciseType(CalledType)
              /\ pc = "idle"
              /\ ret.expr # Abort
        /\ (call.fn = "getBits" /\ CalledType.category = "Integer") =>
              ret.expr = Returned(CalledType.bits)
        /\ (call.fn = "getBits" /\ CalledType.category = "Enum") =>
              ret.expr = Returned(Bits256)
        /\ (call.fn = "isBitPreciseType" /\ CalledType.category = "Tuple") =>
              (ret.expr.val <=>
                  \A i \in DOMAIN CalledType.components :
                      CalledType.components[i] # NoType =>
                          isBitPreciseType(CalledType.components[i]))

\* getTCCforExpr was called with a FixedBytes type, which isBitPreciseType
\* accepts, and ended in the failed solAssert of getBits
C13_Witness ==
    /\ call.fn = "getTCCforExpr"
    /\ call.tp.category = "FixedBytes"
    /\ isBitPreciseType(call.tp)
    /\ pc = "abort"
    /\ ret.expr = Abort

---------------------------------------------------------------------------
(* The assumptions of the created bodies *)

IsCreated == call.fn \in Creators

\* C14: under every encoding and every setting of the overflow flag, every
\* assume statement in the bodies of the created transfer, call and send
\* procedures has a condition; the assumption that balances cannot overflow
\* is there only when the encoder returned a correctness condition.
C14_AssumesHaveConditions ==
    IsCreated => WellFormed(ret.body)

\* the transfer procedure created under the integer encoding with the
\* overflow flag set assumes the absent correctness condition of the addition
C14_Witness ==
    /\ ProcIs("createTransferProc")
    /\ encoding = "INT"
    /\ overflow
    /\ encodeArithBinaryOp(encoding, "Add", ArrSel(boogieBalance, boogieThis),
                           Id("amount"), Bits256, FALSE).cc = Null
    /\ \E i \in DOMAIN ret.body : ret.body[i] = Assume(Null)

---------------------------------------------------------------------------
(* Self-transfer: this and sender are the same address *)

\* a run of transfer, or of the success path of send, with this = sender
\* that ended, under the integer or the modular encoding
IsSelfTransferRun ==
    /\ Done
    /\ This = Sender
    /\ encoding \in {"INT", "MOD"}
    /\ \/ ProcIs("createTransferProc")
       \/ ProcIs("createSendProc") /\ Result = TRUE

\* C15: when this and sender are the same address, a run of the transfer
\* procedure, or of the success path of send, that passes the precondition
\* ends with every balance entry equal to its initial value, in Mathematical
\* mode and in Modular mode with the overflow flag on or off.
C15_SelfTransferKeepsBalances ==
    IsSelfTransferRun =>
        /\ BalanceBefore[Sender] >= Amount
        /\ \A a \in Addresses : BalanceAfter[a] = BalanceBefore[a]

\* a self-transfer in Modular mode without the overflow assumption whose
\* credit wrapped around, and whose debit wrapped back
C15_Witness ==
    /\ IsSelfTransferRun
    /\ ProcIs("createTransferProc")
    /\ encoding = "MOD" /\ ~overflow
    /\ Amount > 0
    /\ BalanceBefore[This] + Amount > MaxBalance
    /\ BalanceAfter = BalanceBefore

==========================================================================
